---- MODULE Spec2Model ----
(***************************************************************************)
(* Trip planning (plan_route) and duty-log generation (generate_eld_logs)  *)
(* of trips/services.py, as a state machine.                               *)
(*                                                                         *)
(* Numbers.  The code computes in floats; the model computes exactly, in   *)
(* fixed point.  Distances are counted in units of 1/UnitsPerMile mile and *)
(* times in ticks of 1/TicksPerHour hour, with TicksPerHour chosen so that *)
(* one tick of driving at avg_speed covers exactly one distance unit.      *)
(* Float rounding is therefore not modelled: where the code's              *)
(* remaining_distance keeps a residue of about 1e-13 mile after a drive    *)
(* and logs one more driving segment of about 1e-15 hour, the model has    *)
(* remaining_distance = 0 and no such segment.  The residue is of either   *)
(* sign: where the code's remaining_distance ends at about -1e-14 mile,    *)
(* the model has 0 as well.                                                *)
(*                                                                         *)
(* The inputs are the two quantities plan_route derives from its lookups   *)
(* (lines 72-84): the route distance and the distance to the pickup.       *)
(*                                                                         *)
(* Further specifications of this module: LookupSpec (the lookups of       *)
(* plan_route), TwoCallsSpec (two invocations of plan_route), TripSpec and *)
(* LogSpec (the workflow endpoints of trips/views.py), DetailSpec (the     *)
(* workflow endpoints with the detail endpoint of a trip).                 *)
(***************************************************************************)
EXTENDS Integers, Sequences, FiniteSets, TLC

(* ---------------------------------------------------------------------- *)
(* Resolution and input bounds                                            *)
(* ---------------------------------------------------------------------- *)
UnitsPerMile == 4
MaxDistSteps == 48
MaxFrac == 3
MaxPickSteps == 8

DistStep == 50
PickStep == 275
MaxCycleUsed == 70

(* ---------------------------------------------------------------------- *)
(* Program constants                                                      *)
(* ---------------------------------------------------------------------- *)
avg_speed == 50

TicksPerHour == avg_speed * UnitsPerMile

Hours(n) == n * TicksPerHour
HalfHours(n) == (n * TicksPerHour) \div 2
Miles(n) == n * UnitsPerMile

\* hours * avg_speed, as a distance
DriveMiles(hours) == (hours * avg_speed * UnitsPerMile) \div TicksPerHour
\* miles / avg_speed, as a time
DriveHours(miles) == (miles * TicksPerHour) \div (avg_speed * UnitsPerMile)

Min2(a, b) == IF a <= b THEN a ELSE b
Min3(a, b, c) == Min2(a, Min2(b, c))

\* Python int(x) for x >= 0: whole miles, truncated
IntMiles(d) == d \div UnitsPerMile

\* Python int(round(x)): whole miles, rounded half to even
RoundMiles(d) ==
    LET q == d \div UnitsPerMile
        r == d % UnitsPerMile
    IN  IF 2 * r < UnitsPerMile THEN q
        ELSE IF 2 * r > UnitsPerMile THEN q + 1
        ELSE IF q % 2 = 0 THEN q ELSE q + 1

\* math.floor(miles / 1000)
Thousands(d) == d \div Miles(1000)

VARIABLES
    pc,                  \* position in create_trip: plan_route, then generate_eld_logs
    total_distance,      \* plan_route: distance (= total_distance), distance units
    distance_to_pickup,  \* plan_route: distance_to_pickup, distance units
    current_miles,       \* plan_route: current_miles, distance units
    hours_worked,        \* plan_route: hours_worked, ticks
    rest_stops,          \* plan_route: rest_stops
    route_data,          \* the RouteResult returned by plan_route
    eld,                 \* generate_eld_logs: its locals and its output list
    lookup,              \* plan_route: its arguments, the coordinates and the last response
    calls,               \* a second invocation of plan_route, and what each was answered
    trips,               \* the rows of Trip, by primary key
    eld_logs,            \* the rows of ELDLog, by primary key
    reply                \* the last request to a workflow endpoint and its response

vars == <<pc, total_distance, distance_to_pickup, current_miles, hours_worked,
          rest_stops, route_data, eld, lookup, calls, trips, eld_logs, reply>>

\* what the steps of plan_route and generate_eld_logs leave alone
Rows == <<trips, eld_logs, reply>>

(* ---------------------------------------------------------------------- *)
(* plan_route                                                             *)
(* ---------------------------------------------------------------------- *)
Distances == { Miles(i * DistStep) + f : i \in 0..MaxDistSteps, f \in 0..MaxFrac }

PickupDistances(d) ==
    { p \in { Miles(j * PickStep) : j \in 0..MaxPickSteps } : p <= d } \cup {d}

Stop(type, duration, miles) ==
    [type |-> type, duration |-> duration, milesFromStart |-> miles]

NoRoute == [totalDistance |-> 0, restStops |-> <<>>]

NoEld == [current_hour |-> 0, current_day |-> 0, daily_segments |-> <<>>,
          daily_hours |-> [off |-> 0, sleeper |-> 0, driving |-> 0, on |-> 0],
          total_miles_day |-> 0, remaining_distance |-> 0, remarks |-> <<>>,
          stop_index |-> 0, logs |-> <<>>]

NoCoord == [lat |-> 0, lng |-> 0, name |-> <<>>]

\* the lookups of lines 68-84 are not part of a run that starts at line 86
NoLookup == [current |-> <<>>, pickup |-> <<>>, dropoff |-> <<>>,
             current_c |-> NoCoord, pickup_c |-> NoCoord, dropoff_c |-> NoCoord,
             response |-> [t |-> "null"], geometry |-> <<>>, duration |-> 0,
             error |-> ""]

\* one invocation, and a database the planning does not read
NoCalls == [active |-> 1, other |-> <<>>, answers |-> <<>>]
NoRows == <<>>
NoReply == [endpoint |-> "", user |-> "", pk |-> 0, code |-> 0, body |-> ""]

Init ==
    /\ pc = "plan_loop"
    /\ total_distance \in Distances
    /\ distance_to_pickup \in PickupDistances(total_distance)
    /\ current_miles = 0
    /\ hours_worked = 0
    /\ rest_stops = <<>>
    /\ route_data = NoRoute
    /\ eld = NoEld
    /\ lookup = NoLookup
    /\ calls = NoCalls
    /\ trips = NoRows
    /\ eld_logs = NoRows
    /\ reply = NoReply

\* line 114: the drive that ends at cm2 crossed a multiple of 1000 miles
FuelDueOnExactThousand(cm2, drive_miles) == cm2 % Miles(1000) = 0

FuelDue(cm2, drive_miles) == Thousands(cm2) > Thousands(cm2 - drive_miles)

\* lines 136-137: an overnight rest is due and distance remains
RestDueOnWindowOnly(hw, cm2) ==
    (hw % Hours(14)) >= HalfHours(27) /\ cm2 < total_distance

RestDueAlsoAtEnd(hw, cm2) ==
    hw >= Hours(11) \/ (hw % Hours(14)) >= HalfHours(27)

RestDue(hw, cm2) ==
    (hw >= Hours(11) \/ (hw % Hours(14)) >= HalfHours(27)) /\ cm2 < total_distance

\* line 146: the rest resets hours_worked
HoursAfterRestKept(rest, hw) == hw

HoursAfterRest(rest, hw) == IF rest THEN 0 ELSE hw

\* one iteration of the planning loop
PlanIteration(cm, hw, stops) ==
    LET remaining_shift_hours ==
            Min2(Hours(11) - (hw % Hours(11)), Hours(14) - (hw % Hours(14)))
        stops1 ==
            IF hw > 0 /\ (hw % Hours(8)) < HalfHours(1)
            THEN Append(stops, Stop("30-min break", HalfHours(1), IntMiles(cm)))
            ELSE stops
        drive_miles ==
            Min3(DriveMiles(remaining_shift_hours), total_distance - cm, Miles(550))
        cm2 == cm + drive_miles
        hw2 == hw + DriveHours(drive_miles)
        fuel == FuelDue(cm2, drive_miles)
        stops2 ==
            IF fuel
            THEN Append(stops1, Stop("fuel", HalfHours(1), IntMiles(cm2)))
            ELSE stops1
        hw3 == IF fuel THEN hw2 + HalfHours(1) ELSE hw2
        pick == cm2 >= distance_to_pickup /\ (cm2 - drive_miles) < distance_to_pickup
        stops3 ==
            IF pick
            THEN Append(stops2, Stop("pickup", Hours(1), IntMiles(distance_to_pickup)))
            ELSE stops2
        hw4 == IF pick THEN hw3 + Hours(1) ELSE hw3
        rest == RestDue(hw4, cm2)
        stops4 ==
            IF rest
            THEN Append(stops3, Stop("rest", Hours(10), IntMiles(cm2)))
            ELSE stops3
        hw5 == HoursAfterRest(rest, hw4)
    IN  [current_miles |-> cm2, hours_worked |-> hw5, rest_stops |-> stops4]

PlanLoop ==
    /\ pc = "plan_loop"
    /\ current_miles < total_distance
    /\ LET r == PlanIteration(current_miles, hours_worked, rest_stops)
       IN  /\ current_miles' = r.current_miles
           /\ hours_worked' = r.hours_worked
           /\ rest_stops' = r.rest_stops
    /\ UNCHANGED <<pc, total_distance, distance_to_pickup, route_data, eld, lookup>>
    /\ UNCHANGED <<calls, Rows>>

\* the dropoff stop and the returned route_data
PlanResult(stops) ==
    [totalDistance |-> RoundMiles(total_distance),
     restStops |-> Append(stops, Stop("dropoff", Hours(1), IntMiles(total_distance)))]

PlanReturn ==
    /\ pc = "plan_loop"
    /\ ~(current_miles < total_distance)
    /\ route_data' = PlanResult(rest_stops)
    /\ rest_stops' = route_data'.restStops
    /\ pc' = "eld_start"
    /\ UNCHANGED <<total_distance, distance_to_pickup, current_miles, hours_worked, eld, lookup>>
    /\ UNCHANGED <<calls, Rows>>

(* ---------------------------------------------------------------------- *)
(* generate_eld_logs                                                      *)
(* ---------------------------------------------------------------------- *)
Segment(status, startHour, duration, location) ==
    [status |-> status, startHour |-> startHour, duration |-> duration,
     location |-> location]

ZeroHours == [off |-> 0, sleeper |-> 0, driving |-> 0, on |-> 0]

\* daily_hours[...] += duration, by status
AddHours(h, status, duration) ==
    IF status = "off-duty" THEN [h EXCEPT !.off = @ + duration]
    ELSE IF status = "sleeper" THEN [h EXCEPT !.sleeper = @ + duration]
    ELSE IF status = "driving" THEN [h EXCEPT !.driving = @ + duration]
    ELSE [h EXCEPT !.on = @ + duration]

add_segment_untruncated(s, status, duration, location) ==
    IF s.current_hour + duration > Hours(24)
    THEN LET actual_duration == Hours(24) - s.current_hour
         IN  IF actual_duration > 0
             THEN [s EXCEPT
                     !.daily_segments =
                         Append(@, Segment(status, s.current_hour, duration, location)),
                     !.daily_hours = AddHours(@, status, actual_duration),
                     !.current_hour = Hours(24)]
             ELSE [s EXCEPT !.current_hour = Hours(24)]
    ELSE [s EXCEPT
            !.daily_segments =
                Append(@, Segment(status, s.current_hour, duration, location)),
            !.daily_hours = AddHours(@, status, duration),
            !.current_hour = @ + duration]

add_segment(s, status, duration, location) ==
    IF s.current_hour + duration > Hours(24)
    THEN LET actual_duration == Hours(24) - s.current_hour
         IN  IF actual_duration > 0
             THEN [s EXCEPT
                     !.daily_segments =
                         Append(@, Segment(status, s.current_hour, actual_duration, location)),
                     !.daily_hours = AddHours(@, status, actual_duration),
                     !.current_hour = Hours(24)]
             ELSE [s EXCEPT !.current_hour = Hours(24)]
    ELSE [s EXCEPT
            !.daily_segments =
                Append(@, Segment(status, s.current_hour, duration, location)),
            !.daily_hours = AddHours(@, status, duration),
            !.current_hour = @ + duration]

\* date is start_date + (current_day - 1) days; the model records the offset
save_day(s) ==
    [s EXCEPT
       !.logs = Append(@, [date |-> s.current_day - 1,
                           dayNumber |-> s.current_day,
                           hours |-> [offDuty |-> s.daily_hours.off,
                                      sleeperBerth |-> s.daily_hours.sleeper,
                                      driving |-> s.daily_hours.driving,
                                      onDuty |-> s.daily_hours.on],
                           segments |-> s.daily_segments,
                           remarks |-> s.remarks,
                           totalMiles |-> RoundMiles(s.total_miles_day)]),
       !.current_day = @ + 1,
       !.daily_segments = <<>>,
       !.daily_hours = ZeroHours,
       !.total_miles_day = 0,
       !.current_hour = 0]

AddRemark(s, text) == [s EXCEPT !.remarks = Append(@, text)]

\* locals at line 184-191, then the start-of-day segments of lines 244-249
EldBegin(route) ==
    LET s0 == [current_hour |-> Hours(8), current_day |-> 1, daily_segments |-> <<>>,
               daily_hours |-> ZeroHours, total_miles_day |-> 0,
               remaining_distance |-> Miles(route.totalDistance),
               remarks |-> <<>>, stop_index |-> 0, logs |-> <<>>]
        s1 == add_segment(s0, "sleeper", Hours(8), "Home terminal")
        s2 == AddRemark(s1, "Started trip after 10-hour rest")
    IN  add_segment(s2, "on-duty", HalfHours(1), "Pre-trip inspection")

stops == route_data.restStops

LoopCondition(s) == s.remaining_distance > 0 \/ s.stop_index < Len(stops)

HosCap(s) ==
    \/ s.daily_hours.driving >= Hours(11)
    \/ (s.daily_hours.driving + s.daily_hours.on) >= Hours(14)

CloseDayOnCapNotSaved(s) ==
    LET s1 == add_segment(s, "on-duty", HalfHours(1), "Post-trip inspection")
        s2 == IF s1.current_hour < Hours(24)
              THEN add_segment(s1, "sleeper", Hours(24) - s1.current_hour, "Rest area")
              ELSE s1
        s4 == add_segment(s2, "sleeper", Hours(10), "Rest area")
    IN  add_segment(s4, "on-duty", HalfHours(1), "Pre-trip inspection")

\* lines 253-259: close the day on the HOS cap and open the next one
CloseDayOnCap(s) ==
    LET s1 == add_segment(s, "on-duty", HalfHours(1), "Post-trip inspection")
        s2 == IF s1.current_hour < Hours(24)
              THEN add_segment(s1, "sleeper", Hours(24) - s1.current_hour, "Rest area")
              ELSE s1
        s3 == save_day(s2)
        s4 == add_segment(s3, "sleeper", Hours(10), "Rest area")
    IN  add_segment(s4, "on-duty", HalfHours(1), "Pre-trip inspection")

DriveCreditingLoggedTime(s, drive_time, location) ==
    IF drive_time > 0
    THEN LET s1 == add_segment(s, "driving", drive_time, location)
         IN  [s1 EXCEPT !.total_miles_day = @ + DriveMiles(s1.current_hour - s.current_hour),
                        !.remaining_distance = @ - DriveMiles(drive_time)]
    ELSE s

\* add a driving segment of drive_time when it is positive
Drive(s, drive_time, location) ==
    IF drive_time > 0
    THEN LET s1 == add_segment(s, "driving", drive_time, location)
         IN  [s1 EXCEPT !.total_miles_day = @ + DriveMiles(drive_time),
                        !.remaining_distance = @ - DriveMiles(drive_time)]
    ELSE s

\* line 265: the drive towards a pickup or dropoff stop
StopDriveTimeNoDrivingCap(s) ==
    Min2(DriveHours(s.remaining_distance),
         Hours(14) - (s.daily_hours.driving + s.daily_hours.on))

StopDriveTimeIgnoringDistance(s) ==
    Min2(Hours(11) - s.daily_hours.driving,
         Hours(14) - (s.daily_hours.driving + s.daily_hours.on))

StopDriveTime(s) ==
    Min3(DriveHours(s.remaining_distance),
         Hours(11) - s.daily_hours.driving,
         Hours(14) - (s.daily_hours.driving + s.daily_hours.on))

\* lines 262-292: consume the next stop
ProcessStop(s) ==
    LET stop == stops[s.stop_index + 1]
        s0 == [s EXCEPT !.stop_index = @ + 1]
        driving == s.daily_hours.driving
    IN  IF stop.type \in {"pickup", "dropoff"}
        THEN LET drive_time == StopDriveTime(s)
                 s1 == Drive(s0, drive_time, "En route to")
                 s2 == add_segment(s1, "on-duty", Hours(1),
                           IF stop.type = "pickup" THEN "Pickup at" ELSE "Delivery at")
             IN  AddRemark(s2, IF stop.type = "pickup" THEN "Pickup" ELSE "Delivery")
        ELSE IF stop.type = "fuel"
        THEN LET drive_time == Min2(Hours(2), Hours(11) - driving)
                 s1 == Drive(s0, drive_time, "")
                 s2 == add_segment(s1, "on-duty", HalfHours(1), "Fuel stop")
             IN  AddRemark(s2, "Fueling")
        ELSE IF stop.type = "30-min break"
        THEN LET drive_time == Min3(Hours(3), Hours(11) - driving,
                                    Hours(8) - (driving % Hours(8)))
                 s1 == Drive(s0, drive_time, "")
                 s2 == add_segment(s1, "off-duty", HalfHours(1), "30-min break")
             IN  AddRemark(s2, "30-minute break")
        ELSE IF stop.type = "rest"
        THEN LET s1 == IF s0.current_hour < Hours(24)
                       THEN add_segment(s0, "sleeper", Hours(24) - s0.current_hour, "Rest area")
                       ELSE s0
                 s2 == save_day(s1)
             IN  add_segment(s2, "sleeper", Hours(10), "Rest area")
        ELSE s0

\* line 294: the drive once every stop is consumed
FreeDriveTime(s) ==
    Min3(DriveHours(s.remaining_distance),
         Hours(11) - s.daily_hours.driving,
         Hours(14) - (s.daily_hours.driving + s.daily_hours.on) - HalfHours(1))

\* line 299-300: the loop is left when no stop is left and nothing can be driven
Breaks(s) == ~HosCap(s) /\ ~(s.stop_index < Len(stops)) /\ ~(FreeDriveTime(s) > 0)

RolloverNoRest(s) ==
    IF s.current_hour >= HalfHours(47)
    THEN save_day(add_segment(s, "off-duty", Hours(24) - s.current_hour, ""))
    ELSE s

\* lines 302-305: the day rolls over once the clock reaches 23.5
Rollover(s) ==
    IF s.current_hour >= HalfHours(47)
    THEN LET s1 == add_segment(s, "off-duty", Hours(24) - s.current_hour, "")
             s2 == save_day(s1)
         IN  add_segment(s2, "sleeper", Hours(10), "Rest area")
    ELSE s

\* one iteration of the main loop, lines 252-305
LoopBody(s) ==
    IF HosCap(s) THEN CloseDayOnCap(s)
    ELSE IF s.stop_index < Len(stops) THEN Rollover(ProcessStop(s))
    ELSE IF FreeDriveTime(s) > 0 THEN Rollover(Drive(s, FreeDriveTime(s), ""))
    ELSE s

CloseTripUnfilled(s) ==
    IF s.daily_segments # <<>>
    THEN LET s1 == IF s.current_hour <= HalfHours(47)
                   THEN add_segment(s, "on-duty", HalfHours(1), "Post-trip inspection")
                   ELSE s
         IN  save_day(AddRemark(s1, "Trip completed"))
    ELSE s

\* lines 307-320
CloseTrip(s) ==
    IF s.daily_segments # <<>>
    THEN LET s1 == IF s.current_hour <= HalfHours(47)
                   THEN add_segment(s, "on-duty", HalfHours(1), "Post-trip inspection")
                   ELSE s
             s2 == IF s1.current_hour < Hours(24)
                   THEN add_segment(s1, "off-duty", Hours(24) - s1.current_hour, "End of day")
                   ELSE s1
         IN  save_day(AddRemark(s2, "Trip completed"))
    ELSE s

PlanVars == <<total_distance, distance_to_pickup, current_miles, hours_worked,
              rest_stops, route_data, lookup, calls, Rows>>

EldStart ==
    /\ pc = "eld_start"
    /\ eld' = EldBegin(route_data)
    /\ pc' = "eld_loop"
    /\ UNCHANGED PlanVars

EldLoop ==
    /\ pc = "eld_loop"
    /\ LoopCondition(eld)
    /\ eld' = LoopBody(eld)
    /\ pc' = IF Breaks(eld) THEN "eld_break" ELSE "eld_loop"
    /\ UNCHANGED PlanVars

EldReturn ==
    /\ \/ pc = "eld_loop" /\ ~LoopCondition(eld)
       \/ pc = "eld_break"
    /\ eld' = CloseTrip(eld)
    /\ pc' = "done"
    /\ UNCHANGED PlanVars

Next == PlanLoop \/ PlanReturn \/ EldStart \/ EldLoop \/ EldReturn

Spec == Init /\ [][Next]_vars

\* the request handler runs to completion: no step that can be taken is put off for ever
FairSpec == Spec /\ WF_vars(Next)

(* ---------------------------------------------------------------------- *)
(* geocode, haversine, osrm_route and the head of plan_route              *)
(*                                                                        *)
(* A text is a sequence of characters.  A latitude or longitude is an     *)
(* integer number of 1/10000 degree.  A JSON value of a response carries  *)
(* its type in the field t.                                               *)
(* ---------------------------------------------------------------------- *)
JNull == [t |-> "null"]
JNumber(n) == [t |-> "number", v |-> n]
\* a string that float() parses to n
JNumeric(n) == [t |-> "string", numeric |-> TRUE, v |-> n, empty |-> FALSE]
\* a string that float() rejects
JText(isEmpty) == [t |-> "string", numeric |-> FALSE, v |-> 0, empty |-> isEmpty]
JList(items) == [t |-> "list", items |-> items]
JObject(fields) == [t |-> "object", fields |-> fields]

HasKey(j, k) == j.t = "object" /\ k \in DOMAIN j.fields

\* float(x) succeeds
Floatable(j) == j.t = "number" \/ (j.t = "string" /\ j.numeric)

\* Python truth value of a JSON value
Truthy(j) ==
    IF j.t = "null" THEN FALSE
    ELSE IF j.t = "number" THEN j.v # 0
    ELSE IF j.t = "string" THEN ~j.empty
    ELSE IF j.t = "list" THEN Len(j.items) > 0
    ELSE DOMAIN j.fields # {}

\* str.lower(), on the characters the texts are made of
LowerChar(c) ==
    CASE c = "A" -> "a"
        [] c = "B" -> "b"
        [] c = "C" -> "c"
        [] c = "D" -> "d"
        [] c = "E" -> "e"
        [] c = "F" -> "f"
        [] c = "G" -> "g"
        [] c = "H" -> "h"
        [] c = "I" -> "i"
        [] c = "J" -> "j"
        [] c = "K" -> "k"
        [] c = "L" -> "l"
        [] c = "M" -> "m"
        [] c = "N" -> "n"
        [] c = "O" -> "o"
        [] c = "P" -> "p"
        [] c = "Q" -> "q"
        [] c = "R" -> "r"
        [] c = "S" -> "s"
        [] c = "T" -> "t"
        [] c = "U" -> "u"
        [] c = "V" -> "v"
        [] c = "W" -> "w"
        [] c = "X" -> "x"
        [] c = "Y" -> "y"
        [] c = "Z" -> "z"
        [] OTHER -> c

Lower(text) == [i \in 1..Len(text) |-> LowerChar(text[i])]

\* text.split(',')[0]
FirstSegment(text) ==
    LET commas == { i \in 1..Len(text) : text[i] = "," }
    IN  IF commas = {} THEN text
        ELSE SubSeq(text, 1, (CHOOSE i \in commas : \A j \in commas : i <= j) - 1)

\* str.strip()
Strip(text) ==
    LET solid == { i \in 1..Len(text) : text[i] # " " }
    IN  IF solid = {} THEN <<>>
        ELSE SubSeq(text,
                    CHOOSE i \in solid : \A j \in solid : i <= j,
                    CHOOSE i \in solid : \A j \in solid : i >= j)

mocks ==
   <<
      [key |-> <<"n", "e", "w", " ", "y", "o", "r", "k">>,
       lat |-> 407128, lng |-> -740060],
      [key |-> <<"l", "o", "s", " ", "a", "n", "g", "e", "l", "e", "s">>,
       lat |-> 340522, lng |-> -1182437],
      [key |-> <<"c", "h", "i", "c", "a", "g", "o">>,
       lat |-> 418781, lng |-> -876298],
      [key |-> <<"d", "a", "l", "l", "a", "s">>,
       lat |-> 327767, lng |-> -967970],
      [key |-> <<"m", "i", "a", "m", "i">>,
       lat |-> 257617, lng |-> -801918],
      [key |-> <<"p", "h", "o", "e", "n", "i", "x">>,
       lat |-> 334484, lng |-> -1120740],
      [key |-> <<"a", "t", "l", "a", "n", "t", "a">>,
       lat |-> 337490, lng |-> -843880],
      [key |-> <<"d", "e", "n", "v", "e", "r">>,
       lat |-> 397392, lng |-> -1049903]
   >>

\* line 35: the key the fallback table is read with
GeocodeKeyAsTyped(location) == Strip(FirstSegment(location))

GeocodeKey(location) == Strip(FirstSegment(Lower(location)))

\* lines 24-37: the fallback coordinate
GeocodeFallback(location) ==
    LET key == GeocodeKey(location)
        hits == { i \in 1..Len(mocks) : mocks[i].key = key }
    IN  IF hits # {}
        THEN LET m == mocks[CHOOSE i \in hits : TRUE]
             IN  [lat |-> m.lat, lng |-> m.lng, name |-> location]
        ELSE [lat |-> 407128, lng |-> -740060, name |-> location]

\* lines 12-21 run without an exception and reach the return
GeocodeUsable(res) ==
    /\ res.status = "ok"
    /\ res.data.t = "list"
    /\ Len(res.data.items) > 0
    /\ HasKey(res.data.items[1], "lat")
    /\ HasKey(res.data.items[1], "lon")
    /\ Floatable(res.data.items[1].fields.lat)
    /\ Floatable(res.data.items[1].fields.lon)

geocode(location, res) ==
    IF GeocodeUsable(res)
    THEN LET item == res.data.items[1]
         IN  [lat |-> item.fields.lat.v,
              lng |-> item.fields.lon.v,
              name |-> IF HasKey(item, "display_name")
                       THEN item.fields.display_name
                       ELSE location]
    ELSE GeocodeFallback(location)

\* the points a coordinate of the model can lie on: the eight of the fallback
\* table and the two the geocoding service answers with
Points ==
   <<
      <<407128, -740060>>,
      <<340522, -1182437>>,
      <<418781, -876298>>,
      <<327767, -967970>>,
      <<257617, -801918>>,
      <<334484, -1120740>>,
      <<337490, -843880>>,
      <<397392, -1049903>>,
      <<418500, -876500>>,
      <<327800, -968000>>
   >>

\* haversine (R = 3959 miles) between Points[i] and Points[j], evaluated with
\* the formula of lines 41-46 and rounded to a quarter of a mile
HaversineQuarterMiles ==
   <<
      <<0, 9783, 2844, 5483, 4370, 8560, 2984, 6510, 2848, 5483>>,
      <<9783, 0, 6970, 4951, 9343, 1427, 7731, 3320, 6964, 4951>>,
      <<2844, 6970, 0, 3219, 4766, 5807, 2355, 3673, 9, 3218>>,
      <<5483, 4951, 3219, 0, 4441, 3538, 2879, 2650, 3210, 1>>,
      <<4370, 9343, 4766, 4441, 0, 7916, 2426, 6901, 4760, 4442>>,
      <<8560, 1427, 5807, 3538, 7916, 0, 6355, 2342, 5801, 3538>>,
      <<2984, 7731, 2355, 2879, 2426, 6355, 0, 4840, 2349, 2879>>,
      <<6510, 3320, 3673, 2650, 6901, 2342, 4840, 0, 3668, 2649>>,
      <<2848, 6964, 9, 3210, 4760, 5801, 2349, 3668, 0, 3210>>,
      <<5483, 4951, 3218, 1, 4442, 3538, 2879, 2649, 3210, 0>>
   >>

haversine(lat1, lon1, lat2, lon2) ==
    LET i == CHOOSE k \in 1..Len(Points) : Points[k] = <<lat1, lon1>>
        j == CHOOSE k \in 1..Len(Points) : Points[k] = <<lat2, lon2>>
    IN  (HaversineQuarterMiles[i][j] * UnitsPerMile) \div 4

\* 1609.34 metres to the mile; a length in metres is kept in steps of 5 mm
MetreStepsPerMile == 321868
MetreStepsPerUnit == MetreStepsPerMile \div UnitsPerMile

\* miles * 1609.34 and metres / 1609.34
ToMetres(d) == d * MetreStepsPerUnit
FromMetres(m) == m \div MetreStepsPerUnit

\* seconds / 3600
FromSeconds(sec) == (sec * TicksPerHour) \div 3600

\* lines 52-62 run without an exception
OsrmUsable(res) ==
    /\ res.status = "ok"
    /\ HasKey(res.data, "routes")
    /\ res.data.fields.routes.t = "list"
    /\ Len(res.data.fields.routes.items) > 0
    /\ LET route == res.data.fields.routes.items[1]
       IN  /\ HasKey(route, "geometry")
           /\ HasKey(route.fields.geometry, "coordinates")
           /\ route.fields.geometry.fields.coordinates.t = "list"
           /\ HasKey(route, "distance")
           /\ route.fields.distance.t = "number"
           /\ HasKey(route, "duration")
           /\ route.fields.duration.t = "number"

NoRouting == [found |-> FALSE, geometry |-> <<>>, distance |-> 0, duration |-> 0,
              legs |-> JList(<<>>)]

osrm_route(res) ==
    IF OsrmUsable(res)
    THEN LET route == res.data.fields.routes.items[1]
             coordinates == route.fields.geometry.fields.coordinates.items
         IN  [found |-> TRUE,
              geometry |-> [k \in 1..Len(coordinates) |->
                               [lat |-> coordinates[k][2], lng |-> coordinates[k][1]]],
              distance |-> FromMetres(route.fields.distance.v),
              duration |-> FromSeconds(route.fields.duration.v),
              legs |-> IF HasKey(route, "legs") THEN route.fields.legs ELSE JList(<<>>)]
    ELSE NoRouting

\* line 80: the single leg of the fallback
FallbackLegsBare(d1) == JList(<<JNumber(ToMetres(d1))>>)

FallbackLegsInMiles(d1) == JList(<<JObject([distance |-> JNumber(d1)])>>)

FallbackLegs(d1) == JList(<<JObject([distance |-> JNumber(ToMetres(d1))])>>)

\* lines 72-80: the routing result, or its great-circle substitute
Routing(res, current_c, pickup_c, dropoff_c) ==
    LET r == osrm_route(res)
        d1 == haversine(current_c.lat, current_c.lng, pickup_c.lat, pickup_c.lng)
        d2 == haversine(pickup_c.lat, pickup_c.lng, dropoff_c.lat, dropoff_c.lng)
    IN  IF ~r.found
        THEN [found |-> TRUE,
              geometry |-> <<current_c, pickup_c, dropoff_c>>,
              distance |-> d1 + d2,
              duration |-> DriveHours(d1 + d2),
              legs |-> FallbackLegs(d1)]
        ELSE r

\* line 82: the exception the expression raises, "" when it raises none
PickupLegError(legs) ==
    IF ~Truthy(legs) THEN ""
    ELSE IF legs.t = "number" THEN "TypeError"
    ELSE IF legs.t = "string" THEN "AttributeError"
    ELSE IF legs.t = "object" THEN "KeyError"
    ELSE IF legs.items[1].t # "object" THEN "AttributeError"
    ELSE IF ~HasKey(legs.items[1], "distance") THEN ""
    ELSE IF ~Truthy(legs.items[1].fields.distance) THEN ""
    ELSE IF legs.items[1].fields.distance.t # "number" THEN "TypeError"
    ELSE ""

\* lines 82-84: distance_to_pickup, when line 82 raises nothing
DistanceToPickup(legs, current_c, pickup_c) ==
    IF /\ Truthy(legs)
       /\ HasKey(legs.items[1], "distance")
       /\ Truthy(legs.items[1].fields.distance)
    THEN FromMetres(legs.items[1].fields.distance.v)
    ELSE haversine(current_c.lat, current_c.lng, pickup_c.lat, pickup_c.lng)

(* The requests of the model: the location texts of four trips. *)
ChicagoIL == <<"C", "h", "i", "c", "a", "g", "o", ",", " ", "I", "L">>
DallasLower == <<"d", "a", "l", "l", "a", "s">>
LosAngeles == <<"L", "o", "s", " ", "A", "n", "g", "e", "l", "e", "s">>
NewYork == <<"N", "e", "w", " ", "Y", "o", "r", "k">>
MiamiUpper == <<" ", "M", "I", "A", "M", "I", " ", ",", "F", "L">>
Springfield == <<"S", "p", "r", "i", "n", "g", "f", "i", "e", "l", "d">>
EmptyText == <<>>
DenverCO == <<"D", "e", "n", "v", "e", "r", ",", "C", "O">>
PhoenixAZ == <<"p", "h", "o", "e", "n", "i", "x", " ", ",", " ", "A", "Z">>
Atlanta == <<"A", "t", "l", "a", "n", "t", "a">>

Trips ==
    { <<ChicagoIL, DallasLower, LosAngeles>>,
      <<NewYork, NewYork, LosAngeles>>,
      <<MiamiUpper, Springfield, EmptyText>>,
      <<DenverCO, PhoenixAZ, Atlanta>> }

(* What the geocoding service may answer. *)
Failed(kind) == [status |-> kind, data |-> JNull]
Answer(data) == [status |-> "ok", data |-> data]

GeoFailures ==
    { Failed("network_error"), Failed("timeout"), Failed("http_error"),
      Answer(JList(<<>>)) }

GeoMalformed ==
    { Answer(JObject([lat |-> JNumeric(418500)])),
      Answer(JList(<<JObject([lon |-> JNumeric(-876500)])>>)),
      Answer(JList(<<JObject([lat |-> JText(FALSE), lon |-> JNumeric(-876500)])>>)),
      Answer(JList(<<JObject([lat |-> JNull, lon |-> JNumeric(-876500)])>>)),
      Answer(JList(<<JText(FALSE)>>)) }

GeoSuccesses ==
    { Answer(JList(<<JObject([lat |-> JNumeric(418500), lon |-> JNumeric(-876500),
                              display_name |-> <<"C", "o", "o", "k">>])>>)),
      Answer(JList(<<JObject([lat |-> JNumber(327800), lon |-> JNumber(-968000)])>>)) }

GeoResponses == GeoFailures \cup GeoMalformed \cup GeoSuccesses

(* What the routing service may answer.  Distances are in metres,         *)
(* durations in seconds.                                                  *)
Line == JObject([coordinates |->
                    JList(<< <<-876500, 418500>>, <<-920000, 370000>>,
                             <<-968000, 327800>> >>)])

Route(distance, duration, legs) ==
    JObject([geometry |-> Line, distance |-> distance, duration |-> duration,
             legs |-> legs])

Leg(miles) == JObject([distance |-> JNumber(ToMetres(Miles(miles)))])

OsrmFailures ==
    { Failed("network_error"), Failed("timeout"), Failed("http_error"),
      Answer(JObject([routes |-> JList(<<>>)])) }

OsrmSuccesses ==
    { Answer(JObject([routes |-> JList(<<
          Route(JNumber(ToMetres(Miles(1200) + 3)), JNumber(86400),
                JList(<<Leg(300), Leg(900)>>))>>)])),
      Answer(JObject([routes |-> JList(<<
          Route(JNumber(ToMetres(Miles(250))), JNumber(18000),
                JList(<<Leg(250), Leg(0)>>))>>)])) }

OsrmMalformed ==
    { Answer(JObject([code |-> JText(FALSE)])),
      Answer(JObject([routes |-> JList(<<
          Route(JText(FALSE), JNumber(86400), JList(<<Leg(300), Leg(900)>>))>>)])),
      Answer(JObject([routes |-> JList(<<
          JObject([distance |-> JNumber(ToMetres(Miles(1200))),
                   duration |-> JNumber(86400)])>>)])),
      Answer(JObject([routes |-> JList(<<
          JObject([geometry |-> Line,
                   distance |-> JNumber(ToMetres(Miles(1200))),
                   duration |-> JNumber(86400)])>>)])),
      Answer(JObject([routes |-> JList(<<
          Route(JNumber(ToMetres(Miles(1200))), JNumber(86400), JList(<<>>))>>)])),
      Answer(JObject([routes |-> JList(<<
          Route(JNumber(ToMetres(Miles(1200))), JNumber(86400),
                JList(<<JObject([steps |-> JList(<<>>)])>>))>>)])),
      Answer(JObject([routes |-> JList(<<
          Route(JNumber(ToMetres(Miles(1200))), JNumber(86400),
                JList(<<JText(FALSE)>>))>>)])),
      Answer(JObject([routes |-> JList(<<
          Route(JNumber(ToMetres(Miles(1200))), JNumber(86400),
                JList(<<JObject([distance |-> JText(FALSE)])>>))>>)])),
      Answer(JObject([routes |-> JList(<<
          Route(JNumber(ToMetres(Miles(1200))), JNumber(86400), JNumber(5))>>)])) }

OsrmResponses == OsrmFailures \cup OsrmSuccesses \cup OsrmMalformed

\* plan_route is entered with its three arguments
Called ==
    /\ pc = "geocode_current"
    /\ \E trip \in Trips :
          lookup = [current |-> trip[1], pickup |-> trip[2], dropoff |-> trip[3],
                    current_c |-> NoCoord, pickup_c |-> NoCoord, dropoff_c |-> NoCoord,
                    response |-> JNull, geometry |-> <<>>, duration |-> 0,
                    error |-> ""]
    /\ total_distance = 0
    /\ distance_to_pickup = 0
    /\ current_miles = 0
    /\ hours_worked = 0
    /\ rest_stops = <<>>
    /\ route_data = NoRoute
    /\ eld = NoEld
    /\ trips = NoRows
    /\ eld_logs = NoRows
    /\ reply = NoReply

LookupInit ==
    /\ Called
    /\ calls = NoCalls

PlanState == <<total_distance, distance_to_pickup, current_miles, hours_worked,
               rest_stops, route_data, eld>>

\* lines 68-70: the three geocode calls, one a step
GeocodeAnswered(res) ==
    /\ pc \in {"geocode_current", "geocode_pickup", "geocode_dropoff"}
    /\ lookup' =
         
             IF pc = "geocode_current"
             THEN [lookup EXCEPT !.current_c = geocode(lookup.current, res),
                                 !.response = res]
             ELSE IF pc = "geocode_pickup"
             THEN [lookup EXCEPT !.pickup_c = geocode(lookup.pickup, res),
                                 !.response = res]
             ELSE [lookup EXCEPT !.dropoff_c = geocode(lookup.dropoff, res),
                                 !.response = res]
    /\ pc' = IF pc = "geocode_current" THEN "geocode_pickup"
             ELSE IF pc = "geocode_pickup" THEN "geocode_dropoff"
             ELSE "osrm_route"
    /\ UNCHANGED PlanState
    /\ UNCHANGED Rows

Geocode ==
    /\ \E res \in GeoResponses : GeocodeAnswered(res)
    /\ UNCHANGED calls

\* lines 72-91: the routing call, its fallback, distance_to_pickup and the
\* locals of the planning loop
RouteAnswered(res) ==
    /\ pc = "osrm_route"
    /\ LET r == Routing(res, lookup.current_c, lookup.pickup_c, lookup.dropoff_c)
              err == PickupLegError(r.legs)
          IN  IF err # ""
              THEN /\ lookup' = [lookup EXCEPT !.response = res, !.error = err]
                   /\ pc' = "raised"
                   /\ UNCHANGED <<total_distance, distance_to_pickup>>
              ELSE /\ lookup' = [lookup EXCEPT !.response = res,
                                               !.geometry = r.geometry,
                                               !.duration = r.duration]
                   /\ total_distance' = r.distance
                   /\ distance_to_pickup' =
                         DistanceToPickup(r.legs, lookup.current_c, lookup.pickup_c)
                   /\ pc' = "plan_loop"
    /\ current_miles' = 0
    /\ hours_worked' = 0
    /\ rest_stops' = <<>>
    /\ UNCHANGED <<route_data, eld, Rows>>

RouteLookup ==
    /\ \E res \in OsrmResponses : RouteAnswered(res)
    /\ UNCHANGED calls

LookupNext == Geocode \/ RouteLookup \/ PlanLoop \/ PlanReturn

LookupSpec == LookupInit /\ [][LookupNext]_vars

(* ---------------------------------------------------------------------- *)
(* Two invocations of plan_route                                          *)
(*                                                                        *)
(* Two requests plan the same trip and every call to a service is         *)
(* answered to the one as it was answered to the other.  The invocations  *)
(* run in any interleaving of their steps: the variables hold the locals  *)
(* of the invocation that runs, calls.other those of the suspended one.   *)
(* ---------------------------------------------------------------------- *)
\* the locals of the invocation that runs
Frame ==
    [pc |-> pc, lookup |-> lookup, total_distance |-> total_distance,
     distance_to_pickup |-> distance_to_pickup, current_miles |-> current_miles,
     hours_worked |-> hours_worked, rest_stops |-> rest_stops,
     route_data |-> route_data]

ResumeWithSharedStops(f) == [f EXCEPT !.rest_stops = rest_stops]

\* every name plan_route assigns is a local of the invocation (lines 68-91,
\* 159): an invocation resumes with the values it was suspended with
Resume(f) == f

SomeGeoResponses ==
    { Failed("timeout"), Answer(JList(<<JText(FALSE)>>)) } \cup GeoSuccesses

SomeOsrmResponses ==
    { Failed("http_error"),
      Answer(JObject([routes |-> JList(<<
          Route(JNumber(ToMetres(Miles(1200))), JNumber(86400),
                JList(<<JText(FALSE)>>))>>)])) } \cup OsrmSuccesses

\* the answers open to the next call of the invocation that runs: the answer
\* the other invocation got to the same call, when it has made it
Answers(all) ==
    LET mine == calls.answers[calls.active]
        theirs == calls.answers[3 - calls.active]
    IN  IF Len(theirs) > Len(mine) THEN { theirs[Len(mine) + 1] } ELSE all

Answered(res) == calls' = [calls EXCEPT !.answers[calls.active] = Append(@, res)]

TwoCallsInit ==
    /\ Called
    /\ calls = [active |-> 1, other |-> Frame, answers |-> << <<>>, <<>> >>]

CallGeocode ==
    \E res \in Answers(SomeGeoResponses) : GeocodeAnswered(res) /\ Answered(res)

CallRoute ==
    \E res \in Answers(SomeOsrmResponses) : RouteAnswered(res) /\ Answered(res)

\* the scheduler suspends the invocation that runs and resumes the other
Switch ==
    /\ LET f == Resume(calls.other)
       IN  /\ pc' = f.pc
           /\ lookup' = f.lookup
           /\ total_distance' = f.total_distance
           /\ distance_to_pickup' = f.distance_to_pickup
           /\ current_miles' = f.current_miles
           /\ hours_worked' = f.hours_worked
           /\ rest_stops' = f.rest_stops
           /\ route_data' = f.route_data
    /\ calls' = [calls EXCEPT !.active = 3 - @, !.other = Frame]
    /\ UNCHANGED <<eld, Rows>>

TwoCallsNext == CallGeocode \/ CallRoute \/ PlanLoop \/ PlanReturn \/ Switch

TwoCallsSpec == TwoCallsInit /\ [][TwoCallsNext]_vars

(* ---------------------------------------------------------------------- *)
(* The workflow endpoints of trips/views.py                               *)
(*                                                                        *)
(* A request is one step: the handler runs from its first line to its     *)
(* Response.  Every caller is authenticated (permission_classes); reply   *)
(* holds the request and the response of the last step.                   *)
(* ---------------------------------------------------------------------- *)
\* User.role of each user, one of ROLE_CHOICES
Users == [d1 |-> "driver", d2 |-> "driver", a1 |-> "admin"]
UserIds == DOMAIN Users
role(user) == Users[user]

\* a null foreign key, a null timestamp
NoUser == "None"
NoTime == 0

\* a Trip as the model's defaults create it
Trip(driver) ==
    [driver |-> driver, status |-> "draft", notes |-> "",
     approved_by |-> NoUser, approved_at |-> NoTime]

\* the trips of the database: one of driver d1, one without a driver
TripRows == <<Trip("d1"), Trip(NoUser)>>

\* the pk of a request: a trip of the database, or none of them
TripKeys == DOMAIN TripRows \cup {Len(TripRows) + 1}

\* request.data['notes']: absent or empty, or a text
Notes == {"", "n1"}

\* timezone.now()
Timestamps == {1, 2}

\* an error Response: nothing is saved
Refused(code) == [code |-> code, trips |-> trips, body |-> "error"]

\* trip.save() and Response(TripSerializer(trip).data)
Saved(pk, row) == [code |-> 200, trips |-> [trips EXCEPT ![pk] = row], body |-> row]

\* if request.data.get('notes'): trip.notes = request.data['notes']
WithNotes(row, notes) == IF notes # "" THEN [row EXCEPT !.notes = notes] ELSE row

NotOwnUnlessUnassigned(user, trip) ==
    role(user) = "driver" /\ trip.driver # NoUser /\ trip.driver # user

\* lines 227, 316, 343, 371: request.user.role == 'driver' and trip.driver != request.user
NotOwn(user, trip) == role(user) = "driver" /\ trip.driver # user

submit_trip(user, pk, notes) ==
    IF pk \notin DOMAIN trips THEN Refused(404)
    ELSE IF NotOwn(user, trips[pk]) THEN Refused(403)
    ELSE IF trips[pk].status # "draft" THEN Refused(400)
    ELSE Saved(pk, WithNotes([trips[pk] EXCEPT !.status = "pending"], notes))

approve_trip(user, pk, notes, now) ==
    IF role(user) # "admin" THEN Refused(403)
    ELSE IF pk \notin DOMAIN trips THEN Refused(404)
    ELSE IF trips[pk].status # "pending" THEN Refused(400)
    ELSE Saved(pk, WithNotes([trips[pk] EXCEPT !.status = "approved",
                                               !.approved_by = user,
                                               !.approved_at = now], notes))

reject_trip(user, pk, notes) ==
    IF role(user) # "admin" THEN Refused(403)
    ELSE IF pk \notin DOMAIN trips THEN Refused(404)
    ELSE IF trips[pk].status # "pending" THEN Refused(400)
    ELSE Saved(pk, WithNotes([trips[pk] EXCEPT !.status = "draft"], notes))

StartableAlsoPending(trip) == trip.status \in {"approved", "pending"}

\* line 319
Startable(trip) == trip.status = "approved"

start_trip(user, pk) ==
    IF pk \notin DOMAIN trips THEN Refused(404)
    ELSE IF NotOwn(user, trips[pk]) THEN Refused(403)
    ELSE IF ~Startable(trips[pk]) THEN Refused(400)
    ELSE Saved(pk, [trips[pk] EXCEPT !.status = "in_progress"])

complete_trip(user, pk) ==
    IF pk \notin DOMAIN trips THEN Refused(404)
    ELSE IF NotOwn(user, trips[pk]) THEN Refused(403)
    ELSE IF trips[pk].status # "in_progress" THEN Refused(400)
    ELSE Saved(pk, [trips[pk] EXCEPT !.status = "completed"])

DriverMayCancelApproved(trip) == trip.status \in {"draft", "pending", "approved"}

\* line 373
DriverMayCancel(trip) == trip.status \in {"draft", "pending"}

cancel_trip(user, pk, notes) ==
    IF pk \notin DOMAIN trips THEN Refused(404)
    ELSE IF role(user) = "driver" /\ NotOwn(user, trips[pk]) THEN Refused(403)
    ELSE IF role(user) = "driver" /\ ~DriverMayCancel(trips[pk]) THEN Refused(400)
    ELSE Saved(pk, WithNotes([trips[pk] EXCEPT !.status = "cancelled"], notes))

\* the planning runs in other requests: these steps leave it alone
Planning == <<pc, total_distance, distance_to_pickup, current_miles, hours_worked,
              rest_stops, route_data, eld, lookup, calls>>

Idle ==
    /\ pc = "serving"
    /\ total_distance = 0
    /\ distance_to_pickup = 0
    /\ current_miles = 0
    /\ hours_worked = 0
    /\ rest_stops = <<>>
    /\ route_data = NoRoute
    /\ eld = NoEld
    /\ lookup = NoLookup
    /\ calls = NoCalls

\* the request and the Response
Reply(endpoint, user, pk, out) ==
    [endpoint |-> endpoint, user |-> user, pk |-> pk, code |-> out.code,
     body |-> out.body]

SubmitTrip ==
    \E user \in UserIds, pk \in TripKeys, notes \in Notes :
        LET out == submit_trip(user, pk, notes)
        IN  /\ trips' = out.trips
            /\ reply' = Reply("submit_trip", user, pk, out)
            /\ UNCHANGED <<eld_logs, Planning>>

ApproveTrip ==
    \E user \in UserIds, pk \in TripKeys, notes \in Notes, now \in Timestamps :
        LET out == approve_trip(user, pk, notes, now)
        IN  /\ trips' = out.trips
            /\ reply' = Reply("approve_trip", user, pk, out)
            /\ UNCHANGED <<eld_logs, Planning>>

RejectTrip ==
    \E user \in UserIds, pk \in TripKeys, notes \in Notes :
        LET out == reject_trip(user, pk, notes)
        IN  /\ trips' = out.trips
            /\ reply' = Reply("reject_trip", user, pk, out)
            /\ UNCHANGED <<eld_logs, Planning>>

StartTrip ==
    \E user \in UserIds, pk \in TripKeys :
        LET out == start_trip(user, pk)
        IN  /\ trips' = out.trips
            /\ reply' = Reply("start_trip", user, pk, out)
            /\ UNCHANGED <<eld_logs, Planning>>

CompleteTrip ==
    \E user \in UserIds, pk \in TripKeys :
        LET out == complete_trip(user, pk)
        IN  /\ trips' = out.trips
            /\ reply' = Reply("complete_trip", user, pk, out)
            /\ UNCHANGED <<eld_logs, Planning>>

CancelTrip ==
    \E user \in UserIds, pk \in TripKeys, notes \in Notes :
        LET out == cancel_trip(user, pk, notes)
        IN  /\ trips' = out.trips
            /\ reply' = Reply("cancel_trip", user, pk, out)
            /\ UNCHANGED <<eld_logs, Planning>>

\* Trip.STATUS_CHOICES
StatusChoices ==
    {"draft", "pending", "approved", "in_progress", "completed", "cancelled"}

\* a field a PATCH leaves out
Absent == "absent"

\* request.data of a PATCH, over the fields of TripUpdateSerializer the rows
\* of the model have: a status of STATUS_CHOICES or another text, a user or
\* null as driver, notes
UpdateData ==
    [status : StatusChoices \cup {"shipped", Absent},
     driver : {"d2", NoUser, Absent},
     notes : {"n1", Absent}]

\* get_queryset of TripDetailView: a driver sees the trips they drive
Visible(user, pk) ==
    /\ pk \in DOMAIN trips
    /\ role(user) = "driver" => trips[pk].driver = user

\* serializer.is_valid(): status is a ChoiceField over STATUS_CHOICES
ValidUpdate(data) == data.status \in StatusChoices \cup {Absent}

\* serializer.save() of a partial update: the fields sent are written
Updated(row, data) ==
    [row EXCEPT
       !.status = IF data.status # Absent THEN data.status ELSE @,
       !.driver = IF data.driver # Absent THEN data.driver ELSE @,
       !.notes = IF data.notes # Absent THEN data.notes ELSE @]

\* PATCH on TripDetailView (UpdateModelMixin.partial_update)
partial_update(user, pk, data) ==
    IF ~Visible(user, pk) THEN Refused(404)
    ELSE IF ~ValidUpdate(data) THEN Refused(400)
    ELSE LET row == Updated(trips[pk], data)
         IN  [code |-> 200, trips |-> [trips EXCEPT ![pk] = row],
              body |-> [status |-> row.status, driver |-> row.driver,
                        notes |-> row.notes]]

UpdateTrip ==
    \E user \in UserIds, pk \in TripKeys, data \in UpdateData :
        LET out == partial_update(user, pk, data)
        IN  /\ trips' = out.trips
            /\ reply' = Reply("trip_detail", user, pk, out)
            /\ UNCHANGED <<eld_logs, Planning>>

\* an ELDLog as plan_trip creates it (lines 78-87)
Log(trip) ==
    [trip |-> trip, submission_status |-> "draft", submitted_at |-> NoTime,
     reviewed_by |-> NoUser, reviewed_at |-> NoTime, review_notes |-> ""]

\* two logs of the trip of d1
LogRows == <<Log(1), Log(1)>>

\* serializer.validated_data['log_ids'], as a set: logs of the database and an
\* id that is none of them
LogIdLists == SUBSET (DOMAIN LogRows \cup {Len(LogRows) + 1})

\* the pk of a review: a log of the database, or none of them
LogKeys == DOMAIN LogRows \cup {Len(LogRows) + 1}

\* review_notes of a review: absent or blank, or a text
ReviewNotes == {"", "r1"}

\* line 402, evaluated on rows: ELDLog.objects.filter(id__in=log_ids,
\* trip__driver=request.user, submission_status='draft')
DraftLogsOf(rows, log_ids, user) ==
    { id \in DOMAIN rows :
        /\ id \in log_ids
        /\ trips[rows[id].trip].driver = user
        /\ rows[id].submission_status = "draft" }

LogRefused(code) == [code |-> code, eld_logs |-> eld_logs, body |-> "error"]

\* lines 394-412.  logs is a lazy QuerySet: exists() (line 404), update()
\* (line 407), count() (line 410) and values_list() (line 411) each send the
\* filter of line 402 to the database as it is at that line
submit_logs(user, log_ids, now) ==
    IF role(user) # "driver" THEN LogRefused(403)
    ELSE IF DraftLogsOf(eld_logs, log_ids, user) = {} THEN LogRefused(400)
    ELSE LET updated ==
                 [id \in DOMAIN eld_logs |->
                     IF id \in DraftLogsOf(eld_logs, log_ids, user)
                     THEN [eld_logs[id] EXCEPT !.submission_status = "submitted",
                                               !.submitted_at = now]
                     ELSE eld_logs[id]]
         IN  [code |-> 200, eld_logs |-> updated,
              body |-> [count |-> Cardinality(DraftLogsOf(updated, log_ids, user)),
                        submitted_logs |-> DraftLogsOf(updated, log_ids, user)]]

ReviewableAlsoDecided(log) ==
    log.submission_status \in {"submitted", "approved", "rejected"}

\* line 433
Reviewable(log) == log.submission_status = "submitted"

review_log(user, pk, action, review_notes, now) ==
    IF role(user) # "admin" THEN LogRefused(403)
    ELSE IF pk \notin DOMAIN eld_logs THEN LogRefused(404)
    ELSE IF ~Reviewable(eld_logs[pk]) THEN LogRefused(400)
    ELSE LET row == [eld_logs[pk] EXCEPT
                        !.submission_status =
                            IF action = "approve" THEN "approved" ELSE "rejected",
                        !.reviewed_by = user,
                        !.reviewed_at = now,
                        !.review_notes = review_notes]
         IN  [code |-> 200, eld_logs |-> [eld_logs EXCEPT ![pk] = row], body |-> row]

SubmitLogs ==
    \E user \in UserIds, log_ids \in LogIdLists, now \in Timestamps :
        LET out == submit_logs(user, log_ids, now)
        IN  /\ eld_logs' = out.eld_logs
            /\ reply' = Reply("submit_logs", user, 0, out)
            /\ UNCHANGED <<trips, Planning>>

ReviewLog ==
    \E user \in UserIds, pk \in LogKeys, action \in {"approve", "reject"},
       review_notes \in ReviewNotes, now \in Timestamps :
        LET out == review_log(user, pk, action, review_notes, now)
        IN  /\ eld_logs' = out.eld_logs
            /\ reply' = Reply("review_log", user, pk, out)
            /\ UNCHANGED <<trips, Planning>>

Stored ==
    /\ Idle
    /\ trips = TripRows
    /\ eld_logs = LogRows
    /\ reply = NoReply

TripNext ==
    SubmitTrip \/ ApproveTrip \/ RejectTrip \/ StartTrip \/ CompleteTrip \/ CancelTrip

TripSpec == Stored /\ [][TripNext]_vars

\* the workflow endpoints and the detail endpoint of the trips
DetailNext ==
    \/ SubmitTrip \/ ApproveTrip \/ RejectTrip \/ StartTrip \/ CompleteTrip
    \/ CancelTrip \/ UpdateTrip

\* a database with the one trip of driver d1
StoredOwn ==
    /\ Idle
    /\ trips = <<Trip("d1")>>
    /\ eld_logs = LogRows
    /\ reply = NoReply

DetailSpec == StoredOwn /\ [][DetailNext]_vars

LogNext == SubmitLogs \/ ReviewLog

LogSpec == Stored /\ [][LogNext]_vars

(* ---------------------------------------------------------------------- *)
(* Properties                                                             *)
(* ---------------------------------------------------------------------- *)
returned == pc # "plan_loop"
finished == pc = "done"

planned == route_data.restStops
logs == eld.logs

StopsOfType(t) == { i \in 1..Len(planned) : planned[i].type = t }

Max2(a, b) == IF a >= b THEN a ELSE b

RECURSIVE SumDurations(_)
SumDurations(segs) ==
    IF segs = <<>> THEN 0 ELSE Head(segs).duration + SumDurations(Tail(segs))

\* the segments of all days on one clock: hour 0 is midnight before day 1
RECURSIVE Concatenated(_)
Concatenated(days) ==
    IF days = <<>> THEN <<>>
    ELSE LET d == days[Len(days)]
         IN  Concatenated(SubSeq(days, 1, Len(days) - 1)) \o
             [k \in 1..Len(d.segments) |->
                 [status |-> d.segments[k].status,
                  start |-> Hours(24) * (d.dayNumber - 1) + d.segments[k].startHour,
                  duration |-> d.segments[k].duration]]

\* hours of driving of the timeline tl that fall in the window [a, b]
RECURSIVE DrivingWithin(_, _, _)
DrivingWithin(tl, a, b) ==
    IF tl = <<>> THEN 0
    ELSE LET g == Head(tl)
             part == IF g.status = "driving"
                     THEN Max2(0, Min2(b, g.start + g.duration) - Max2(a, g.start))
                     ELSE 0
         IN  part + DrivingWithin(Tail(tl), a, b)

\* the most driving accumulated without a break of at least 0.5 hour, over
\* the prefixes of tl; acc is the driving since the last such break
RECURSIVE MaxUnbrokenDriving(_, _)
MaxUnbrokenDriving(tl, acc) ==
    IF tl = <<>> THEN acc
    ELSE LET g == Head(tl)
             acc2 == IF g.status = "driving" THEN acc + g.duration
                     ELSE IF g.duration >= HalfHours(1) THEN 0
                     ELSE acc
         IN  Max2(acc, MaxUnbrokenDriving(Tail(tl), acc2))

\* C1: the stop sequence returned by plan_route is non-decreasing in
\* milesFromStart
C1_StopsNonDecreasing ==
    \A i \in 1..(Len(planned) - 1) :
        planned[i].milesFromStart <= planned[i + 1].milesFromStart

\* C2: the returned stop sequence has exactly one dropoff stop, it is the last
\* element, and its milesFromStart equals the totalDistance of the same result
C2_DropoffAtTotalDistance ==
    returned =>
        /\ StopsOfType("dropoff") = {Len(planned)}
        /\ planned[Len(planned)].milesFromStart = route_data.totalDistance

\* C3: the returned stop sequence contains exactly one pickup stop, for every
\* distance-to-pickup in [0, total distance]
C3_ExactlyOnePickup ==
    returned => Cardinality(StopsOfType("pickup")) = 1

\* C4: no DailyLog records more than 11 hours of driving or more than 14 hours
\* of driving plus on-duty time, and no 14-hour window of the concatenated
\* timeline contains more than 11 hours of driving.  The driving inside a
\* sliding window is largest for a window that starts where a driving segment
\* starts or ends where one ends, so these windows are the ones examined.
C4_DrivingLimits ==
    /\ \A i \in 1..Len(logs) :
          /\ logs[i].hours.driving <= Hours(11)
          /\ logs[i].hours.driving + logs[i].hours.onDuty <= Hours(14)
    /\ LET tl == Concatenated(logs)
       IN  \A k \in 1..Len(tl) :
              tl[k].status = "driving" =>
                 /\ DrivingWithin(tl, tl[k].start, tl[k].start + Hours(14)) <= Hours(11)
                 /\ DrivingWithin(tl, tl[k].start + tl[k].duration - Hours(14),
                                  tl[k].start + tl[k].duration) <= Hours(11)

C4_Witness ==
    /\ finished
    /\ Len(logs) >= 3
    /\ \E i \in 1..Len(logs) :
          /\ logs[i].hours.driving = Hours(11)
          /\ logs[i].hours.driving + logs[i].hours.onDuty >= Hours(13)
    /\ LET tl == Concatenated(logs)
       IN  \E k \in 1..Len(tl) :
              /\ tl[k].status = "driving"
              /\ DrivingWithin(tl, tl[k].start, tl[k].start + Hours(14)) = Hours(11)

\* C5: in the concatenated segments of all DailyLogs the driver never
\* accumulates more than 8 hours of driving without an intervening non-driving
\* segment of at least 0.5 hour
C5_BreakAfterEightHours ==
    MaxUnbrokenDriving(Concatenated(logs), 0) <= Hours(8)

\* C6: every DailyLog after the first begins with a sleeper-berth segment at
\* startHour 0 lasting 10 hours, so no driving of a later day starts before
\* hour 10 of that day
C6_DayBeginsWithRest ==
    \A i \in 2..Len(logs) :
        /\ logs[i].segments # <<>>
        /\ logs[i].segments[1].status = "sleeper"
        /\ logs[i].segments[1].startHour = 0
        /\ logs[i].segments[1].duration = Hours(10)
        /\ \A k \in 1..Len(logs[i].segments) :
              logs[i].segments[k].status = "driving" =>
                 logs[i].segments[k].startHour >= Hours(10)

C6_Witness ==
    /\ finished
    /\ \E i \in 1..(Len(logs) - 1) :
          /\ logs[i].hours.driving > 0
          /\ logs[i + 1].hours.driving > 0
    \* a day closed by the rest stop, one by the HOS cap, one by the rollover
    /\ \E i \in 1..(Len(logs) - 1) :
          logs[i].segments[Len(logs[i].segments)].location = "Rest area"
          /\ logs[i].hours.driving < Hours(11)
    /\ \E i \in 1..(Len(logs) - 1) :
          logs[i].hours.driving = Hours(11)
    /\ \E i \in 1..(Len(logs) - 1) :
          logs[i].segments[Len(logs[i].segments)].status = "off-duty"

\* C7: within every DailyLog the segments are time-contiguous and their
\* durations sum to at most 24 hours, also when a segment was truncated at the
\* day boundary
C7_SegmentsContiguous ==
    \A i \in 1..Len(logs) :
        /\ \A k \in 1..(Len(logs[i].segments) - 1) :
              logs[i].segments[k].startHour + logs[i].segments[k].duration
                  = logs[i].segments[k + 1].startHour
        /\ SumDurations(logs[i].segments) <= Hours(24)

\* a day whose mileage exceeds what its recorded driving covers: its driving
\* segment was cut at hour 24
C7_Witness ==
    \E i \in 1..Len(logs) :
        /\ Len(logs[i].segments) >= 2
        /\ logs[i].segments[Len(logs[i].segments) - 1].status = "driving"
        /\ Miles(logs[i].totalMiles) > DriveMiles(logs[i].hours.driving)

\* C8: for every DailyLog the four hour totals are each >= 0 and sum to
\* exactly 24 hours, for the first day as well as for every later day
C8_HoursSumTo24 ==
    \A i \in 1..Len(logs) :
        LET h == logs[i].hours
        IN  /\ h.offDuty >= 0 /\ h.sleeperBerth >= 0 /\ h.driving >= 0 /\ h.onDuty >= 0
            /\ h.offDuty + h.sleeperBerth + h.driving + h.onDuty = Hours(24)

\* C9: every recorded segment has startHour in [0, 24) and duration >= 0
C9_StartHourInDay ==
    \A i \in 1..Len(logs) :
        \A k \in 1..Len(logs[i].segments) :
            /\ 0 <= logs[i].segments[k].startHour
            /\ logs[i].segments[k].startHour < Hours(24)
            /\ logs[i].segments[k].duration >= 0

\* C10: a trip of at most 550 miles (at most 11 driving hours, under 1000
\* miles) gets exactly one DailyLog
C10_ShortTripOneLog ==
    (finished /\ total_distance <= Miles(550)) => Len(logs) = 1

\* C11: a trip of at most 550 miles gets no fuel, rest or 30-min-break stop:
\* its stop sequence consists only of pickup and dropoff stops
C11_ShortTripOnlyPickupDropoff ==
    (returned /\ total_distance <= Miles(550)) =>
        \A i \in 1..Len(planned) : planned[i].type \in {"pickup", "dropoff"}

C11_Witness ==
    /\ returned
    /\ total_distance = Miles(550)
    /\ StopsOfType("pickup") # {}
    /\ StopsOfType("dropoff") # {}

\* C12: a trip of more than 1000 miles gets at least one fuel stop, and a trip
\* of more than 550 miles (more than 11 driving hours) at least one 10-hour
\* rest stop
C12_LongTripFuelAndRest ==
    returned =>
        /\ total_distance > Miles(1000) => StopsOfType("fuel") # {}
        /\ total_distance > Miles(550) => StopsOfType("rest") # {}

C12_Witness ==
    /\ returned
    /\ total_distance > Miles(1000)
    /\ total_distance < Miles(1100)
    /\ StopsOfType("fuel") # {}
    /\ StopsOfType("rest") # {}

\* the miles at which the fuel stops of the sequence lie, in order
RECURSIVE FuelMiles(_)
FuelMiles(ss) ==
    IF ss = <<>> THEN <<>>
    ELSE IF Head(ss).type = "fuel"
         THEN <<Head(ss).milesFromStart>> \o FuelMiles(Tail(ss))
         ELSE FuelMiles(Tail(ss))

\* C13: the distance from the trip start to the first fuel stop, and from each
\* fuel stop to the next, never exceeds 1000 miles
C13_FuelEvery1000Miles ==
    LET fm == <<0>> \o FuelMiles(planned)
    IN  \A i \in 1..(Len(fm) - 1) : fm[i + 1] - fm[i] <= 1000

\* C14: every iteration of the planning loop advances current_miles by a
\* strictly positive amount, a full 550 miles unless it reaches the total
\* distance, so the loop is left after at most ceil(total / 550) iterations
C14_PlanLoopTerminates ==
    /\ [][(pc = "plan_loop" /\ pc' = "plan_loop") =>
             /\ current_miles' > current_miles
             /\ \/ current_miles' = current_miles + Miles(550)
                \/ current_miles' = total_distance]_vars
    /\ [](pc = "plan_loop" => current_miles <= total_distance)
    /\ <>returned

C14_Witness ==
    /\ returned
    /\ total_distance > Miles(1100)
    /\ total_distance % Miles(550) # 0
    /\ current_miles = total_distance

\* C15: every iteration of the main loop of generate_eld_logs consumes a stop,
\* strictly decreases the remaining distance, or closes a day on the HOS cap
\* and leaves a state where the cap no longer holds; the loop is left in the end
C15_EldLoopTerminates ==
    /\ [][(pc = "eld_loop" /\ pc' # "done") =>
             \/ eld'.stop_index > eld.stop_index
             \/ eld'.remaining_distance < eld.remaining_distance
             \/ /\ HosCap(eld)
                /\ ~HosCap(eld')
                /\ Len(eld'.logs) = Len(eld.logs) + 1]_vars
    /\ <>finished

\* a finished trip with a day that was closed on the HOS cap
C15_Witness ==
    /\ finished
    /\ \E i \in 1..Len(logs) :
          \E k \in 1..(Len(logs[i].segments) - 1) :
             /\ logs[i].hours.driving = Hours(11)
             /\ logs[i].segments[k].location = "Post-trip inspection"
             /\ logs[i].segments[k + 1].status = "sleeper"

\* plan_route takes current_cycle_used (line 67) and no line of plan_route or
\* generate_eld_logs reads it: the logs are the same for each of these values
CycleUsedValues == { Hours(h) : h \in 0..MaxCycleUsed }

RECURSIVE DutyHours(_)
DutyHours(days) ==
    IF days = <<>> THEN 0
    ELSE Head(days).hours.driving + Head(days).hours.onDuty + DutyHours(Tail(days))

\* C20: for every currentCycleUsed in [0, 70], currentCycleUsed plus the
\* driving and on-duty hours of all DailyLogs never exceeds 70 hours
C20_CycleLimit ==
    \A current_cycle_used \in CycleUsedValues :
        current_cycle_used + DutyHours(logs) <= Hours(70)

(* ---------------------------------------------------------------------- *)
(* Properties of the workflow endpoints                                   *)
(* ---------------------------------------------------------------------- *)
StatusEndpoints ==
    {"submit_trip", "approve_trip", "reject_trip", "start_trip", "complete_trip"}

\* the one change of status an endpoint makes: from, to
Edge(endpoint) ==
    CASE endpoint = "submit_trip" -> <<"draft", "pending">>
      [] endpoint = "approve_trip" -> <<"pending", "approved">>
      [] endpoint = "reject_trip" -> <<"pending", "draft">>
      [] endpoint = "start_trip" -> <<"approved", "in_progress">>
      [] endpoint = "complete_trip" -> <<"in_progress", "completed">>

\* the fields of a trip a refused request must leave alone
Kept(k) ==
    /\ trips'[k].status = trips[k].status
    /\ trips'[k].notes = trips[k].notes
    /\ trips'[k].approved_by = trips[k].approved_by
    /\ trips'[k].approved_at = trips[k].approved_at

\* the status of every trip changes only along the edge of the endpoint
\* requested, and only for the trip requested
AlongEdges ==
    \A k \in DOMAIN trips :
        trips'[k].status # trips[k].status =>
            /\ k = reply'.pk
            /\ reply'.code = 200
            /\ <<trips[k].status, trips'[k].status>> = Edge(reply'.endpoint)

WrongStatus ==
    /\ reply'.pk \in DOMAIN trips
    /\ trips[reply'.pk].status # Edge(reply'.endpoint)[1]

\* the caller is refused for who they are, whatever the status of the trip
Unauthorized ==
    IF reply'.endpoint \in {"approve_trip", "reject_trip"}
    THEN Users[reply'.user] # "admin"
    ELSE /\ Users[reply'.user] = "driver"
         /\ reply'.pk \in DOMAIN trips
         /\ trips[reply'.pk].driver # reply'.user

\* C22 as stated: a trip's status changes only along the five edges, and a
\* request made while the trip is in any other status returns HTTP 400 and
\* leaves status, notes, approved_by and approved_at unchanged
C22_WrongStatusIs400 ==
    [][reply'.endpoint \in StatusEndpoints =>
          /\ AlongEdges
          /\ WrongStatus => (reply'.code = 400 /\ \A k \in DOMAIN trips : Kept(k))]_vars

\* C22 as amended: such a request returns HTTP 400, or HTTP 403 when the
\* caller is not authorised for the endpoint or the trip, and leaves the
\* four fields unchanged
C22_StatusTransitions ==
    [][reply'.endpoint \in StatusEndpoints =>
          /\ AlongEdges
          /\ WrongStatus =>
                /\ reply'.code = IF Unauthorized THEN 403 ELSE 400
                /\ \A k \in DOMAIN trips : Kept(k)]_vars

\* the trip of d1 went through every edge to completed, and d1's request to
\* start it again was refused
C22_Witness ==
    /\ reply.endpoint = "start_trip"
    /\ reply.user = "d1"
    /\ reply.pk = 1
    /\ reply.code = 400
    /\ trips[1].status = "completed"
    /\ trips[1].approved_by = "a1"

\* C23: approve_trip and reject_trip succeed only for an admin; a driver can
\* submit, start, complete or cancel only a trip whose driver is that
\* driver; every denied request returns HTTP 403 and changes no trip
C23_Authorization ==
    [][reply'.endpoint # "" =>
          /\ (reply'.endpoint \in {"approve_trip", "reject_trip"} /\ reply'.code = 200)
                => Users[reply'.user] = "admin"
          /\ (/\ reply'.endpoint \in {"submit_trip", "start_trip", "complete_trip",
                                      "cancel_trip"}
              /\ reply'.code = 200
              /\ Users[reply'.user] = "driver")
                => trips[reply'.pk].driver = reply'.user
          /\ Unauthorized => reply'.code = 403
          /\ reply'.code = 403 => trips' = trips]_vars

\* a driver asked to approve their own pending trip and was denied
C23_Witness ==
    /\ reply.endpoint = "approve_trip"
    /\ reply.user = "d1"
    /\ reply.pk = 1
    /\ reply.code = 403
    /\ trips[1].status = "pending"
    /\ trips[1].driver = "d1"

\* C24: cancel_trip sets the status to cancelled exactly when the caller is
\* an admin or a driver who owns the trip while it is draft or pending; a
\* driver's cancel of an own trip in any other status returns HTTP 400, of
\* another driver's trip HTTP 403, and both leave the trip unchanged
C24_Cancel ==
    [][(reply'.endpoint = "cancel_trip" /\ reply'.pk \in DOMAIN trips) =>
          LET trip == trips[reply'.pk]
              driver == Users[reply'.user] = "driver"
              own == trip.driver = reply'.user
              allowed == \/ Users[reply'.user] = "admin"
                         \/ driver /\ own /\ trip.status \in {"draft", "pending"}
          IN  /\ allowed <=> (reply'.code = 200 /\ trips'[reply'.pk].status = "cancelled")
              /\ ~allowed => trips' = trips
              /\ (driver /\ own /\ ~allowed) => reply'.code = 400
              /\ (driver /\ ~own) => reply'.code = 403
              /\ \A k \in DOMAIN trips \ {reply'.pk} : trips'[k] = trips[k]]_vars

\* a driver asked to cancel their own approved trip and was refused
C24_Witness ==
    /\ reply.endpoint = "cancel_trip"
    /\ reply.user = "d1"
    /\ reply.pk = 1
    /\ reply.code = 400
    /\ trips[1].status = "approved"

\* C25: a log's submission_status changes only draft -> submitted, by
\* submit_logs of the driver of the log's trip, and submitted -> approved or
\* rejected, by review_log of an admin: an approved or rejected log never
\* changes status again and no log returns to draft
C25_LogStatusTransitions ==
    [][\A id \in DOMAIN eld_logs :
          LET old == eld_logs[id].submission_status
              new == eld_logs'[id].submission_status
          IN  new # old =>
                 \/ /\ old = "draft"
                    /\ new = "submitted"
                    /\ reply'.endpoint = "submit_logs"
                    /\ Users[reply'.user] = "driver"
                    /\ trips[eld_logs[id].trip].driver = reply'.user
                 \/ /\ old = "submitted"
                    /\ new \in {"approved", "rejected"}
                    /\ reply'.endpoint = "review_log"
                    /\ reply'.pk = id
                    /\ Users[reply'.user] = "admin"]_vars

\* one log is approved, the other rejected, and the driver's request to
\* submit both again found no draft log
C25_Witness ==
    /\ eld_logs[1].submission_status = "approved"
    /\ eld_logs[2].submission_status = "rejected"
    /\ reply.endpoint = "submit_logs"
    /\ reply.user = "d1"
    /\ reply.code = 400

\* C26: the submitted_logs of a successful submit_logs response are exactly
\* the ids of the logs the call moved from draft to submitted, and the
\* message states their count
C26_SubmitReportsMoved ==
    [][(reply'.endpoint = "submit_logs" /\ reply'.code = 200) =>
          LET moved == { id \in DOMAIN eld_logs :
                           /\ eld_logs[id].submission_status = "draft"
                           /\ eld_logs'[id].submission_status = "submitted" }
          IN  /\ reply'.body.submitted_logs = moved
              /\ reply'.body.count = Cardinality(moved)]_vars

(* ---------------------------------------------------------------------- *)
(* Properties of the logged stops                                         *)
(* ---------------------------------------------------------------------- *)
\* the segments of all days, in the order they were added
RECURSIVE AllSegments(_)
AllSegments(days) ==
    IF days = <<>> THEN <<>> ELSE Head(days).segments \o AllSegments(Tail(days))

\* the distance covered by the driving segments among the first n of segs
RECURSIVE DrivenIn(_, _)
DrivenIn(segs, n) ==
    IF n = 0 THEN 0
    ELSE (IF segs[n].status = "driving" THEN DriveMiles(segs[n].duration) ELSE 0)
         + DrivenIn(segs, n - 1)

SegmentsAt(location) ==
    { k \in 1..Len(AllSegments(logs)) : AllSegments(logs)[k].location = location }

\* C27: when the 'Pickup at' segment is inserted, the miles driven so far in
\* the logs do not exceed the pickup stop's milesFromStart
C27_DriveToPickupOnly ==
    finished =>
        \A k \in SegmentsAt("Pickup at") : \A i \in StopsOfType("pickup") :
            DrivenIn(AllSegments(logs), k) <= Miles(planned[i].milesFromStart)

\* C28: every pickup stop and every dropoff stop yields an on-duty segment of
\* exactly 1 hour ('Pickup at' / 'Delivery at') in some DailyLog
C28_StopsLoggedOneHour ==
    finished =>
        /\ Cardinality(SegmentsAt("Pickup at")) = Cardinality(StopsOfType("pickup"))
        /\ Cardinality(SegmentsAt("Delivery at")) = Cardinality(StopsOfType("dropoff"))
        /\ \A k \in SegmentsAt("Pickup at") \cup SegmentsAt("Delivery at") :
              /\ AllSegments(logs)[k].status = "on-duty"
              /\ AllSegments(logs)[k].duration = Hours(1)

\* C29: no driving segment occurs after the 'Delivery at' segment of the
\* dropoff stop
C29_NoDrivingAfterDelivery ==
    finished =>
        \A k \in SegmentsAt("Delivery at") :
            \A j \in (k + 1)..Len(AllSegments(logs)) :
                AllSegments(logs)[j].status # "driving"

\* C30: hours_worked is 0 at the start of every iteration of the planning
\* loop and every earlier drive was 550 miles; the rest stops of the returned
\* sequence sit exactly at the multiples of 550 miles below the total
\* distance, and no stop is a 30-min break
C30_RestEvery550Miles ==
    /\ (pc = "plan_loop" /\ current_miles < total_distance) =>
          /\ hours_worked = 0
          /\ current_miles % Miles(550) = 0
    /\ (pc = "eld_start") =>
          /\ StopsOfType("30-min break") = {}
          /\ \A m \in 1..(total_distance \div Miles(550) + 1) :
                (Miles(550 * m) < total_distance) <=>
                    (\E i \in StopsOfType("rest") : planned[i].milesFromStart = 550 * m)
          /\ \A i \in StopsOfType("rest") :
                /\ planned[i].milesFromStart % 550 = 0
                /\ planned[i].milesFromStart > 0
                /\ \A j \in StopsOfType("rest") :
                      planned[j].milesFromStart = planned[i].milesFromStart => i = j

\* the loop starts its fourth iteration, and a trip of more than 1650 miles
\* has returned with three rest stops
C30_Witness ==
    \/ /\ pc = "plan_loop"
       /\ current_miles = Miles(1650)
       /\ current_miles < total_distance
    \/ /\ pc = "eld_start"
       /\ Cardinality(StopsOfType("rest")) >= 3

(* ---------------------------------------------------------------------- *)
(* Properties of repeated invocations                                     *)
(* ---------------------------------------------------------------------- *)
Returned(f) == f.pc \in {"eld_start", "raised"}

routed == pc \in {"plan_loop", "eld_start", "raised"}

\* the geocode call that has just returned: its argument and its result
JustGeocoded ==
    IF pc = "geocode_pickup" THEN <<lookup.current, lookup.current_c>>
    ELSE IF pc = "geocode_dropoff" THEN <<lookup.pickup, lookup.pickup_c>>
    ELSE <<lookup.dropoff, lookup.dropoff_c>>

geocoded == pc \in {"geocode_pickup", "geocode_dropoff", "osrm_route"}

GreatCircleToPickup ==
    haversine(lookup.current_c.lat, lookup.current_c.lng,
              lookup.pickup_c.lat, lookup.pickup_c.lng)

GreatCircleToDropoff ==
    haversine(lookup.pickup_c.lat, lookup.pickup_c.lng,
              lookup.dropoff_c.lat, lookup.dropoff_c.lng)

\* C16: whichever of the geocoding calls fail or succeed, and whether the
\* routing call fails (network error, timeout, HTTP error, empty result) or
\* succeeds, plan_route raises no error and returns a RouteResult whose stop
\* sequence ends with a dropoff
C16_NoErrorOnFailure ==
    (routed /\ lookup.response \in OsrmFailures \cup OsrmSuccesses) =>
        /\ pc # "raised"
        /\ lookup.error = ""
        /\ pc = "eld_start" =>
              /\ planned # <<>>
              /\ planned[Len(planned)].type = "dropoff"
              /\ route_data.totalDistance = RoundMiles(total_distance)

\* plan_route has returned after the routing call failed and after a geocoding
\* call failed and another succeeded
C16_Witness ==
    /\ pc = "eld_start"
    /\ lookup.response \in OsrmFailures
    /\ lookup.current_c = GeocodeFallback(lookup.current)
    /\ lookup.pickup_c.lat = 327800
    /\ planned[Len(planned)].type = "dropoff"

\* C17: a malformed or incomplete payload of the geocoding or routing service
\* is handled like a failure of that call: plan_route raises no error and
\* computes what it computes when the call fails
C17_MalformedLikeFailure ==
    /\ (geocoded /\ lookup.response \in GeoMalformed) =>
          JustGeocoded[2] = GeocodeFallback(JustGeocoded[1])
    /\ (routed /\ lookup.response \in OsrmMalformed) =>
          /\ pc # "raised"
          /\ total_distance = GreatCircleToPickup + GreatCircleToDropoff
          /\ distance_to_pickup = GreatCircleToPickup
          /\ lookup.geometry = <<lookup.current_c, lookup.pickup_c, lookup.dropoff_c>>

\* the eight-city table and the default coordinate, as the claim states them
TableCoordinate(key) ==
      CASE key = <<"n", "e", "w", " ", "y", "o", "r", "k">> -> <<407128, -740060>>
        [] key = <<"l", "o", "s", " ", "a", "n", "g", "e", "l", "e", "s">> -> <<340522, -1182437>>
        [] key = <<"c", "h", "i", "c", "a", "g", "o">> -> <<418781, -876298>>
        [] key = <<"d", "a", "l", "l", "a", "s">> -> <<327767, -967970>>
        [] key = <<"m", "i", "a", "m", "i">> -> <<257617, -801918>>
        [] key = <<"p", "h", "o", "e", "n", "i", "x">> -> <<334484, -1120740>>
        [] key = <<"a", "t", "l", "a", "n", "t", "a">> -> <<337490, -843880>>
        [] key = <<"d", "e", "n", "v", "e", "r">> -> <<397392, -1049903>>
        [] OTHER -> <<407128, -740060>>

\* C18 as stated: after a failed or unusable lookup geocode returns the table
\* coordinate of the lower-cased first comma-separated segment of the input,
\* the default coordinate when that segment is no key, and the input as name
C18_FallbackByFirstSegment ==
    (geocoded /\ lookup.response \in GeoFailures \cup GeoMalformed) =>
        LET location == JustGeocoded[1]
            c == JustGeocoded[2]
        IN  /\ <<c.lat, c.lng>> = TableCoordinate(FirstSegment(Lower(location)))
            /\ c.name = location

\* C18 as amended: the key is the lower-cased first comma-separated segment
\* with the white space around it removed
C18_FallbackByStrippedSegment ==
    (geocoded /\ lookup.response \in GeoFailures \cup GeoMalformed) =>
        LET location == JustGeocoded[1]
            c == JustGeocoded[2]
        IN  /\ <<c.lat, c.lng>> = TableCoordinate(Strip(FirstSegment(Lower(location))))
            /\ c.name = location

C18_Witness ==
    /\ pc = "geocode_pickup"
    /\ lookup.response \in GeoFailures
    /\ lookup.current = ChicagoIL
    /\ lookup.current_c = [lat |-> 418781, lng |-> -876298, name |-> ChicagoIL]

\* C19: when the routing call fails, geometry = [current, pickup, dropoff],
\* total distance = great-circle(current, pickup) + great-circle(pickup,
\* dropoff), duration = total distance / 50 and distance-to-pickup =
\* great-circle(current, pickup)
C19_FallbackRoute ==
    (pc \in {"plan_loop", "eld_start"} /\ lookup.response \in OsrmFailures) =>
        /\ lookup.geometry = <<lookup.current_c, lookup.pickup_c, lookup.dropoff_c>>
        /\ total_distance = GreatCircleToPickup + GreatCircleToDropoff
        /\ lookup.duration * avg_speed * UnitsPerMile = total_distance * TicksPerHour
        /\ distance_to_pickup = GreatCircleToPickup

C19_Witness ==
    /\ pc = "plan_loop"
    /\ lookup.response \in OsrmFailures
    /\ distance_to_pickup > 0
    /\ total_distance > distance_to_pickup
    /\ lookup.current_c.lat = 418500

(* ---------------------------------------------------------------------- *)
(* Properties of the mileage and of the closing of the logs               *)
(* ---------------------------------------------------------------------- *)
RECURSIVE SumMiles(_)
SumMiles(days) ==
    IF days = <<>> THEN 0 ELSE Head(days).totalMiles + SumMiles(Tail(days))

\* the driving segments of one day, in ticks
RECURSIVE DrivingOf(_)
DrivingOf(segs) ==
    IF segs = <<>> THEN 0
    ELSE (IF Head(segs).status = "driving" THEN Head(segs).duration ELSE 0)
         + DrivingOf(Tail(segs))

\* C31: the sum of totalMiles over all DailyLogs equals
\* RouteResult.totalDistance, and the loop never exits through its
\* no-progress break while distance remains
C31_LogsCoverRoute ==
    /\ finished => SumMiles(logs) = route_data.totalDistance
    /\ pc = "eld_break" => eld.remaining_distance <= 0

\* a trip of several days, one of them with a driving segment cut at hour 24
C31_Witness ==
    /\ finished
    /\ Len(logs) >= 3
    /\ route_data.totalDistance > 0
    /\ SumMiles(logs) = route_data.totalDistance
    /\ \E d \in 1..Len(logs) :
          Miles(logs[d].totalMiles) # DriveMiles(DrivingOf(logs[d].segments))

\* C32: in every DailyLog totalMiles equals 50 times the sum of the day's
\* driving segment durations
C32_MilesMatchDriving ==
    finished =>
        \A d \in 1..Len(logs) :
            Miles(logs[d].totalMiles) = DriveMiles(DrivingOf(logs[d].segments))

C35_TripClosed ==
    [][pc' = "done" =>
          LET out == eld'.logs
              last == out[Len(out)]
              segs == last.segments
              n == Len(segs)
              inspected == eld.current_hour <= HalfHours(47)
              closed == IF inspected THEN eld.current_hour + HalfHours(1)
                        ELSE eld.current_hour
          IN  /\ Len(out) = Len(eld.logs) + 1
              /\ \A d \in 1..Len(out) : out[d].dayNumber = d
              /\ n >= 1
              /\ segs[n].startHour + segs[n].duration = Hours(24)
              /\ inspected <=>
                    \E k \in 1..n :
                        /\ segs[k].location = "Post-trip inspection"
                        /\ segs[k].startHour = eld.current_hour
                        /\ segs[k].duration = HalfHours(1)
                        /\ k >= n - 1
              /\ closed < Hours(24) =>
                    /\ segs[n].status = "off-duty"
                    /\ segs[n].location = "End of day"
                    /\ segs[n].startHour = closed
              /\ \E i \in 1..Len(last.remarks) : last.remarks[i] = "Trip completed"
              /\ \A d \in 1..(Len(out) - 1) : \A i \in 1..Len(out[d].remarks) :
                    out[d].remarks[i] # "Trip completed"]_vars

\* C34: a trip has status approved, in_progress or completed only if an
\* admin approved it through approve_trip (the one place that sets
\* approved_by), whatever requests were made, the detail endpoint included
C34_ApprovedOnlyByAdmin ==
    \A k \in DOMAIN trips :
        trips[k].status \in {"approved", "in_progress", "completed"} =>
            /\ trips[k].approved_by \in UserIds
            /\ role(trips[k].approved_by) = "admin"

\* a trip of several days closed by the inspection and the off-duty fill
C35_Witness ==
    /\ pc = "done"
    /\ Len(eld.logs) >= 3
    /\ LET last == eld.logs[Len(eld.logs)]
           n == Len(last.segments)
       IN  /\ n >= 3
           /\ last.segments[n - 1].location = "Post-trip inspection"
           /\ last.segments[n].location = "End of day"
           /\ last.segments[n].startHour + last.segments[n].duration = Hours(24)
           /\ last.remarks[Len(last.remarks)] = "Trip completed"
====
